---- MODULE Spec2Model ----
(***************************************************************************)
(* Model of the A2A multi-agent router: the classifier router              *)
(* (agents/orchestrator.py), the SQLite leaf agent                         *)
(* (agents/dispatch_agent.py) and the simple LLM leaf agent                *)
(* (agents/base_agent.py).                                                 *)
(*                                                                         *)
(* A text is a sequence of tokens (single characters or whole words), so   *)
(* that str.strip, str.lower and f-string concatenation are computed.      *)
(* A coroutine is modelled by one action per segment between two awaits:   *)
(* asyncio runs such a segment without interleaving.                       *)
(***************************************************************************)
EXTENDS Integers, Sequences, FiniteSets, TLC

VARIABLES
    env,         \* process environment: which provider variables are set
    targets,     \* OrchestrationHandler.targets: route key -> descriptor
    db,          \* per leaf agent: the shared sqlite3 connection and its table
    reqs         \* the handler calls: slot -> coroutine frame

vars == <<env, targets, db, reqs>>

(* ------------------------------ bounds --------------------------------- *)

\* number of handler calls (from a caller or forwarded by the router) in one run
MaxReq == 2

(* ------------------------------- texts --------------------------------- *)

\* characters removed by str.strip()
Whitespace == {" ", "\n"}

\* str.lower() on one token
LowerTok(c) ==
    CASE c = "Dispatch" -> "dispatch"
      [] c = "INBOUND"  -> "inbound"
      [] c = "X"        -> "x"
      [] OTHER          -> c

lower(s) == [i \in 1..Len(s) |-> LowerTok(s[i])]

RECURSIVE lstrip(_)
lstrip(s) == IF s # <<>> /\ Head(s) \in Whitespace THEN lstrip(Tail(s)) ELSE s

RECURSIVE rstrip(_)
rstrip(s) ==
    IF s # <<>> /\ s[Len(s)] \in Whitespace
    THEN rstrip(SubSeq(s, 1, Len(s) - 1))
    ELSE s

strip(s) == rstrip(lstrip(s))

(* ------------------------------ messages ------------------------------- *)

TextPart(t) == [kind |-> "text", text |-> t]
FilePart    == [kind |-> "file", text |-> <<>>]

NoParts == <<>>

Message(id, parts, role) == [message_id |-> id, role |-> role, parts |-> parts]

\* str(uuid.uuid4()): a value no other draw returns, named by the handler call
\* that draws it and the ordinal of the draw within that call
NoId == <<0, 0>>

\* the value of a frame's reply before the handler has returned
NoMessage == [message_id |-> NoId, role |-> "none", parts |-> NoParts]

\* extract_text: looks at parts[0] only
extract_text(message) ==
    IF message.parts # <<>>
    THEN IF message.parts[1].kind = "text" THEN message.parts[1].text ELSE <<>>
    ELSE <<>>

\* a2a create_text_message_object(content=text): one text part, role user
create_text_message_object(id, content) ==
    Message(id, <<TextPart(content)>>, "user")

(* ------------------------------ topology ------------------------------- *)

\* the leaf processes followed here; the delivery agent runs the code of the
\* inbound agent (agents/base_agent.py) and is not followed separately
Leaves   == {"dispatch", "inbound"}
Handlers == {"orchestrator"} \cup Leaves

\* the handler class each process serves
Class(h) ==
    CASE h = "orchestrator" -> "OrchestrationHandler"
      [] h = "prefix_orchestrator" -> "ExplicitPrefixRouter"
      [] h = "dispatch"     -> "SQLiteAgent"
      [] OTHER              -> "SimpleLLMAgent"

\* the process listening at each address
AgentAt(url) ==
    CASE url = "http://localhost:8000" -> "orchestrator"
      [] url = "http://localhost:8001" -> "dispatch"
      [] url = "http://localhost:8002" -> "delivery"
      [] OTHER                         -> "inbound"

\* mutant of InitTargets: the dispatch route points at the router's own address
InitTargets_self_route ==
    (<<"dispatch">> :> [url  |-> "http://localhost:8000",
                        name |-> "Dispatch Agent",
                        desc |-> "Manages vehicle assignments"])
    @@ (<<"delivery">> :> [url  |-> "http://localhost:8002",
                           name |-> "Delivery Agent",
                           desc |-> "Tracks shipment status"])
    @@ (<<"inbound">> :> [url  |-> "http://localhost:8003",
                          name |-> "Inbound Agent",
                          desc |-> "Handles inventory intake"])

\* OrchestrationHandler.__init__: the hardcoded routing table
InitTargets ==
    (<<"dispatch">> :> [url  |-> "http://localhost:8001",
                        name |-> "Dispatch Agent",
                        desc |-> "Manages vehicle assignments"])
    @@ (<<"delivery">> :> [url  |-> "http://localhost:8002",
                           name |-> "Delivery Agent",
                           desc |-> "Tracks shipment status"])
    @@ (<<"inbound">> :> [url  |-> "http://localhost:8003",
                          name |-> "Inbound Agent",
                          desc |-> "Handles inventory intake"])

\* DispatchHandler.__init__: the prefix of the SQLite agent's default reply
Prefix(h) == "vehicle stored"

\* build_agent_app(description=...) -> SimpleLLMAgent(system_prompt=description)
SystemPrompt(h) ==
    IF h = "delivery" THEN "Tracks shipment status" ELSE "Handles inventory intake"

(* ------------------------------- inputs -------------------------------- *)

\* message texts a caller sends
Texts == {<<>>, <<" ", "X">>}

\* part lists of inbound messages
PartLists ==
    {NoParts, <<FilePart>>, <<FilePart, TextPart(<<"x">>)>>}
    \cup {<<TextPart(t)>> : t \in Texts}

\* strings a model may answer with
Answers ==
    {<<"dispatch">>, <<" ", "INBOUND", "\n">>, <<"unknown">>, <<"x", " ">>}

\* a value returned by complete: a str, or some other JSON value (null, a number)
Str(s)   == [type |-> "str", val |-> s]
NonStr   == [type |-> "other", val |-> <<>>]

\* the value of a frame's answer before complete has returned
NoAnswer == [type |-> "none", val |-> <<>>]

\* outcomes of the chat.completions.create call
OpenAIOutcomes ==
    {[kind |-> "ok", content |-> a] : a \in Answers}
    \cup {[kind |-> "fail", content |-> <<>>]}

\* outcomes of the POST to the Ollama /api/chat endpoint
OllamaOutcomes ==
    {[kind |-> "ok", content |-> a] : a \in Answers}
    \cup {[kind |-> k, content |-> <<>>] : k \in {"nocontent", "nonstr", "fail"}}

\* outcomes of client.responses.create in SimpleLLMAgent
ResponsesOutcomes ==
    {[kind |-> "ok", content |-> a] : a \in {<<"x", " ">>}}
    \cup {[kind |-> "fail", content |-> <<>>]}

\* outcomes of db.execute(INSERT) followed by db.commit()
StorageOutcomes == {"ok", "execute_fails", "commit_fails"}

\* responses of a peer that is not one of this repository's leaf agents
NoResponse == [kind |-> "none", message |-> NoMessage]
ForeignResponses ==
    {[kind |-> "task", message |-> NoMessage],
     [kind |-> "message",
      message |-> Message(NoId, <<FilePart, TextPart(<<"x">>)>>, "agent")]}

\* client.send_message raised instead of returning a response
TransportError == [kind |-> "transport error", message |-> NoMessage]

\* params of the operations other than send: task ids
OpParams == {"task-1", "task-2"}

\* message texts a caller sends to the explicit-prefix router
PrefixTexts ==
    {<<>>, <<"hello">>,
     <<" ", "Dispatch", " ", ":", " ", "a", ":", "b", " ">>,
     <<"INBOUND", ":", "x">>,
     <<"unknownkey", ":", " ", "test">>}

PrefixPartLists == {NoParts} \cup {<<TextPart(t)>> : t \in PrefixTexts}

(* ------------------------------- frames -------------------------------- *)

Slots == 1..MaxReq

IdleFrame ==
    [slot       |-> 0,
     handler    |-> "none",
     op         |-> "none",
     params     |-> "none",
     parent     |-> 0,
     message    |-> NoMessage,
     text       |-> <<>>,
     pc         |-> "idle",
     prompt     |-> <<>>,
     default    |-> <<>>,
     llm_calls  |-> <<>>,
     llm_results |-> <<>>,
     llm_outputs |-> <<>>,
     answer     |-> NoAnswer,
     peer_calls |-> <<>>,
     delivered  |-> FALSE,
     response   |-> NoResponse,
     storage    |-> "none",
     yielded    |-> 0,
     reply      |-> NoMessage,
     error      |-> "none"]

\* the frame of a call of on_message_send in slot i
SendFrame(i, h, parent, msg, text) ==
    [IdleFrame EXCEPT !.slot = i,
                      !.handler = h,
                      !.op = "on_message_send",
                      !.parent = parent,
                      !.message = msg,
                      !.text = text]

\* the k-th uuid4 value drawn by the call in frame f
Uuid(f, k) == <<f.slot, k>>

Raise(f, exc) == [f EXCEPT !.pc = "raised", !.error = exc]

Return(f, id, text) ==
    [f EXCEPT !.pc = "returned",
              !.reply = Message(id, <<TextPart(text)>>, "agent")]

(* ------------------------------ RequestLog ----------------------------- *)

EmptyDb == [rows |-> <<>>, pending |-> <<>>]

\* db.execute("INSERT ...", (id, text)); db.commit() on the shared connection.
\* A failed execute inserts nothing; a failed commit leaves the inserted row in
\* the connection's open transaction; a commit publishes the whole transaction.
record(conn, id, text, outcome) ==
    LET row == [id |-> id, text |-> text] IN
    CASE outcome = "ok" ->
           [rows |-> conn.rows \o conn.pending \o <<row>>, pending |-> <<>>]
      [] outcome = "commit_fails" ->
           [conn EXCEPT !.pending = Append(@, row)]
      [] OTHER -> conn

(* --------------------------- Router: routing --------------------------- *)

\* OrchestrationHandler.on_message_send, lines 159-166: the classifier prompt
RouterPrompt(text) ==
    <<"You are a router that chooses the best agent for a request.", "\n",
      "Agents:", "\n",
      "- dispatch: Manages vehicle assignments", "\n",
      "- delivery: Tracks shipment status", "\n",
      "- inbound: Handles inventory intake", "\n",
      "User message: ">> \o text
      \o <<"\n", "Return only the agent name or 'unknown'.">>



\* mutant of Route: the peer call is started as a background task and the
\* handler returns without awaiting it
Route_fire_and_forget(f, answer) ==
    IF answer.type # "str"
    THEN Raise(f, "AttributeError")
    ELSE LET choice == lower(strip(answer.val)) IN
         IF choice \notin DOMAIN targets
         THEN Return(f, Uuid(f, 1), <<"unable to route request">>)
         ELSE Return([f EXCEPT !.peer_calls =
                          Append(@, [url     |-> targets[choice].url,
                                     id      |-> Uuid(f, 1),
                                     message |-> create_text_message_object(
                                                     Uuid(f, 2), f.text)])],
                     Uuid(f, 3), <<"ok">>)

\* mutant of Route: the text is trimmed before it is forwarded
Route_forwards_trimmed(f, answer) ==
    IF answer.type # "str"
    THEN Raise(f, "AttributeError")
    ELSE LET choice == lower(strip(answer.val)) IN
         IF choice \notin DOMAIN targets
         THEN Return(f, Uuid(f, 1), <<"unable to route request">>)
         ELSE [f EXCEPT !.pc = "await_peer",
                        !.peer_calls =
                            Append(@, [url     |-> targets[choice].url,
                                       id      |-> Uuid(f, 1),
                                       message |-> create_text_message_object(
                                                       Uuid(f, 2), strip(f.text))])]

\* mutant of Route: a routing miss falls back to the dispatch agent
Route_miss_forwards(f, answer) ==
    IF answer.type # "str"
    THEN Raise(f, "AttributeError")
    ELSE LET choice == lower(strip(answer.val))
             key    == IF choice \in DOMAIN targets THEN choice ELSE <<"dispatch">>
         IN  [f EXCEPT
                 !.pc = "await_peer",
                 !.peer_calls =
                     Append(@, [url     |-> targets[key].url,
                                id      |-> Uuid(f, 1),
                                message |-> create_text_message_object(
                                                Uuid(f, 2), f.text)])]

\* OrchestrationHandler.on_message_send, lines 167-197: from the value returned
\* by complete to the reply of a routing miss or to the await of the peer call
Route(f, answer) ==
    IF answer.type # "str"
    THEN Raise(f, "AttributeError")
    ELSE LET choice == lower(strip(answer.val)) IN
         IF choice \notin DOMAIN targets
         THEN Return(f, Uuid(f, 1), <<"unable to route request">>)
         ELSE [f EXCEPT
                 !.pc = "await_peer",
                 !.peer_calls =
                     Append(@, [url     |-> targets[choice].url,
                                id      |-> Uuid(f, 1),
                                message |-> create_text_message_object(
                                                Uuid(f, 2), f.text)])]

\* mutant of Unwrap: the reply keeps the message id of the peer's Message
Unwrap_relays_message_id(f, resp) ==
    LET reply == IF resp.kind = "message"
                 THEN extract_text(resp.message)
                 ELSE <<"ok">>
        id    == IF resp.kind = "message" THEN resp.message.message_id ELSE Uuid(f, 3)
    IN  Return([f EXCEPT !.response = resp], id, reply)

\* OrchestrationHandler.on_message_send, lines 198-208: unwrapping the response
Unwrap(f, resp) ==
    LET reply == IF resp.kind = "message"
                 THEN extract_text(resp.message)
                 ELSE <<"ok">>
    IN  Return([f EXCEPT !.response = resp], Uuid(f, 3), reply)

(* ------------------------ SQLiteAgent: the reply ----------------------- *)

\* SQLiteAgent.on_message_send, lines 154-159: Message(parts=[TextPart(text=reply)])
\* TextPart validates that text is a str
LeafReply(f, answer) ==
    IF answer.type # "str"
    THEN Raise(f, "ValidationError")
    ELSE Return(f, Uuid(f, 2), answer.val)

\* the code that runs when `await self.llm.complete(...)` returns
AfterComplete(f, answer) ==
    IF Class(f.handler) = "OrchestrationHandler"
    THEN Route([f EXCEPT !.answer = answer], answer)
    ELSE LeafReply([f EXCEPT !.answer = answer], answer)

(* --------------------------- LLMClient.complete ------------------------ *)

\* LLMClient.complete, lines 114-129, entered with the secondary provider
CompleteSecondary(f) ==
    IF env.OLLAMA_MODEL
    THEN [f EXCEPT !.pc = "await_ollama",
                   !.llm_calls = Append(@, [tier |-> "ollama", prompt |-> f.prompt])]
    ELSE AfterComplete(f, Str(f.default))

\* LLMClient.complete, lines 104-113: up to the first await
complete(f, prompt, default) ==
    LET g == [f EXCEPT !.prompt = prompt, !.default = default] IN
    IF env.OPENAI_API_KEY
    THEN [g EXCEPT !.pc = "await_openai",
                   !.llm_calls = Append(@, [tier |-> "openai", prompt |-> prompt])]
    ELSE CompleteSecondary(g)

\* mutant of OpenAIResult: the provider's exception is not caught
OpenAIResult_uncaught(f, out) ==
    LET g == [f EXCEPT !.llm_results = Append(@, out.kind),
                       !.llm_outputs = Append(@, out.content)] IN
    IF out.kind = "ok"
    THEN AfterComplete(g, Str(strip(out.content)))
    ELSE Raise(g, "openai.APIError")

\* mutant of OpenAIResult: the primary provider's content is returned untrimmed
OpenAIResult_untrimmed(f, out) ==
    LET g == [f EXCEPT !.llm_results = Append(@, out.kind),
                       !.llm_outputs = Append(@, out.content)] IN
    IF out.kind = "ok"
    THEN AfterComplete(g, Str(out.content))
    ELSE CompleteSecondary(g)

\* the primary provider's call ends: trimmed content, or on to the next tier
OpenAIResult(f, out) ==
    LET g == [f EXCEPT !.llm_results = Append(@, out.kind),
                       !.llm_outputs = Append(@, out.content)] IN
    IF out.kind = "ok"
    THEN AfterComplete(g, Str(strip(out.content)))
    ELSE CompleteSecondary(g)

\* the secondary provider's call ends
OllamaResult(f, out) ==
    LET g == [f EXCEPT !.llm_results = Append(@, out.kind),
                       !.llm_outputs = Append(@, out.content)] IN
    CASE out.kind = "ok"        -> AfterComplete(g, Str(out.content))
      [] out.kind = "nocontent" -> AfterComplete(g, Str(g.default))
      [] out.kind = "nonstr"    -> AfterComplete(g, NonStr)
      [] OTHER                  -> AfterComplete(g, Str(g.default))

(* ----------------------- the handlers' first segment ------------------- *)

\* mutant of RouterStart: a message without a leading text part is rejected
RouterStart_requires_text(i, msg) ==
    LET text == extract_text(msg) IN
    IF msg.parts = <<>> \/ msg.parts[1].kind # "text"
    THEN Raise(SendFrame(i, "orchestrator", 0, msg, text), "ValueError")
    ELSE complete(SendFrame(i, "orchestrator", 0, msg, text),
                  RouterPrompt(text), <<"unknown">>)

\* mutant of RouterStart: without an answer the router falls back to dispatch
RouterStart_default_dispatch(i, msg) ==
    LET text == extract_text(msg) IN
    complete(SendFrame(i, "orchestrator", 0, msg, text),
             RouterPrompt(text), <<"dispatch">>)

\* OrchestrationHandler.on_message_send, lines 155-169, up to the first await
RouterStart(i, msg) ==
    LET text == extract_text(msg) IN
    complete(SendFrame(i, "orchestrator", 0, msg, text),
             RouterPrompt(text), <<"unknown">>)

\* mutant of SQLiteStart: logging is best effort, a storage error is swallowed
SQLiteStart_best_effort(i, h, parent, msg, st) ==
    LET text == extract_text(msg)
        f    == [SendFrame(i, h, parent, msg, text) EXCEPT !.storage = st]
    IN  complete(f, text, <<Prefix(h), ": ">> \o text)

\* mutant of SQLiteStart: the provider is given the fallback text as prompt
SQLiteStart_prompts_fallback(i, h, parent, msg, st) ==
    LET text == extract_text(msg)
        f    == [SendFrame(i, h, parent, msg, text) EXCEPT !.storage = st]
    IN  IF st # "ok"
        THEN Raise(f, "sqlite3.Error")
        ELSE complete(f, <<Prefix(h), ": ">> \o text, <<Prefix(h), ": ">> \o text)

\* SQLiteAgent.on_message_send, lines 145-154, up to the first await, with
\* storage outcome st
SQLiteStart(i, h, parent, msg, st) ==
    LET text == extract_text(msg)
        f    == [SendFrame(i, h, parent, msg, text) EXCEPT !.storage = st]
    IN  IF st # "ok"
        THEN Raise(f, "sqlite3.Error")
        ELSE complete(f, text, <<Prefix(h), ": ">> \o text)

\* SimpleLLMAgent.on_message_send, lines 57-61: the text of parts[0]
first_part_text(msg) ==
    IF msg.parts # <<>>
    THEN IF msg.parts[1].kind = "text" THEN msg.parts[1].text ELSE <<>>
    ELSE <<>>

\* SimpleLLMAgent.on_message_send, lines 53-81: the handler has no await, the
\* provider call is synchronous
SimpleRun(i, h, parent, msg, st, out) ==
    LET text       == first_part_text(msg)
        f          == [SendFrame(i, h, parent, msg, text) EXCEPT !.storage = st]
        reply_text == <<SystemPrompt(h), ": ">> \o text
        called     == [f EXCEPT !.prompt = reply_text,
                                !.default = reply_text,
                                !.llm_calls = <<[tier |-> "responses",
                                                 prompt |-> reply_text]>>,
                                !.llm_results = <<out.kind>>,
                                !.llm_outputs = <<out.content>>]
        answer     == IF env.OPENAI_API_KEY /\ out.kind = "ok"
                      THEN out.content
                      ELSE reply_text
    IN  IF st # "ok"
        THEN Raise(f, "sqlite3.Error")
        ELSE Return([(IF env.OPENAI_API_KEY THEN called ELSE f)
                        EXCEPT !.answer = Str(answer)],
                    Uuid(f, 2), answer)

\* the first segment of a leaf agent's send, whatever its class
LeafStart(i, h, parent, msg, st, out) ==
    IF Class(h) = "SQLiteAgent"
    THEN SQLiteStart(i, h, parent, msg, st)
    ELSE SimpleRun(i, h, parent, msg, st, out)

\* the provider outcomes a leaf's first segment can meet: only SimpleLLMAgent
\* with a client calls the provider in that segment
FirstSegmentOutcomes(h) ==
    IF Class(h) = "SimpleLLMAgent" /\ env.OPENAI_API_KEY
    THEN ResponsesOutcomes
    ELSE {[kind |-> "not called", content |-> <<>>]}

(* ---------------------- Router: explicit-prefix variant ---------------- *)

\* `":" in text`
has_colon(s) == \E k \in 1..Len(s) : s[k] = ":"

\* text.split(":", 1): what precedes and what follows the first colon
split_first_colon(s) ==
    LET k == CHOOSE k \in 1..Len(s) :
                 s[k] = ":" /\ \A j \in 1..(k - 1) : s[j] # ":"
    IN  <<SubSeq(s, 1, k - 1), SubSeq(s, k + 1, Len(s))>>

\* mutant of PrefixStart: a text without colon is taken as a key with no content
PrefixStart_whole_text_is_key(i, msg) ==
    LET text == extract_text(msg)
        f    == SendFrame(i, "prefix_orchestrator", 0, msg, text)
        kc   == IF has_colon(text) THEN split_first_colon(text) ELSE <<text, <<>>>>
        key  == lower(strip(kc[1]))
    IN  IF key \notin DOMAIN targets
        THEN Return(f, Uuid(f, 1), <<"unknown agent: ">> \o key)
        ELSE [f EXCEPT !.pc = "await_peer",
                       !.peer_calls =
                           Append(@, [url     |-> targets[key].url,
                                      id      |-> Uuid(f, 1),
                                      message |-> create_text_message_object(
                                                      Uuid(f, 2), strip(kc[2]))])]

\* mutant of PrefixStart: the text is split on its last colon
PrefixStart_splits_last_colon(i, msg) ==
    LET text == extract_text(msg)
        f    == SendFrame(i, "prefix_orchestrator", 0, msg, text)
        k    == CHOOSE k \in 1..Len(text) :
                    text[k] = ":" /\ \A j \in (k + 1)..Len(text) : text[j] # ":"
        key  == lower(strip(SubSeq(text, 1, k - 1)))
    IN  IF ~has_colon(text)
        THEN Return(f, Uuid(f, 1), <<"format: agent: message">>)
        ELSE IF key \notin DOMAIN targets
        THEN Return(f, Uuid(f, 1), <<"unknown agent: ">> \o key)
        ELSE [f EXCEPT !.pc = "await_peer",
                       !.peer_calls =
                           Append(@, [url     |-> targets[key].url,
                                      id      |-> Uuid(f, 1),
                                      message |-> create_text_message_object(
                                                      Uuid(f, 2),
                                                      strip(SubSeq(text, k + 1, Len(text))))])]

\* the explicit-prefix router's send up to its peer call: "<agent-key>:
\* <content>" is split on the first colon, the key trimmed and lowercased and
\* looked up, the trimmed content forwarded
PrefixStart(i, msg) ==
    LET text == extract_text(msg)
        f    == SendFrame(i, "prefix_orchestrator", 0, msg, text)
        kc   == split_first_colon(text)
        key  == lower(strip(kc[1]))
    IN  IF ~has_colon(text)
        THEN Return(f, Uuid(f, 1), <<"format: agent: message">>)
        ELSE IF key \notin DOMAIN targets
        THEN Return(f, Uuid(f, 1), <<"unknown agent: ">> \o key)
        ELSE [f EXCEPT !.pc = "await_peer",
                       !.peer_calls =
                           Append(@, [url     |-> targets[key].url,
                                      id      |-> Uuid(f, 1),
                                      message |-> create_text_message_object(
                                                      Uuid(f, 2), strip(kc[2]))])]

(* ----------------------- the other handler operations ----------------- *)

Ops ==
    {"on_get_task", "on_cancel_task", "on_message_send_stream",
     "on_set_task_push_notification_config",
     "on_get_task_push_notification_config",
     "on_resubscribe_to_task",
     "on_list_task_push_notification_config",
     "on_delete_task_push_notification_config"}

\* a coroutine that returns None
ReturnsNone(f) == [f EXCEPT !.pc = "returned"]

\* a coroutine that raises ServerError(error=UnsupportedOperationError()), or an
\* async generator that raises it at the first pull, before its yield
Unsupported(f) == Raise(f, "UnsupportedOperationError")

\* mutant of OrchestratorBaseOp: listing the push configs returns an empty result
OrchestratorBaseOp_list_returns(f) ==
    CASE f.op = "on_get_task"    -> ReturnsNone(f)
      [] f.op = "on_cancel_task" -> ReturnsNone(f)
      [] f.op = "on_list_task_push_notification_config" -> ReturnsNone(f)
      [] OTHER                   -> Unsupported(f)

\* BaseA2AHandler of agents/orchestrator.py, inherited by OrchestrationHandler
OrchestratorBaseOp(f) ==
    CASE f.op = "on_get_task"    -> ReturnsNone(f)
      [] f.op = "on_cancel_task" -> ReturnsNone(f)
      [] OTHER                   -> Unsupported(f)

\* mutant of DispatchBaseOp: task queries are refused like the other operations
DispatchBaseOp_get_task_refused(f) == Unsupported(f)

\* BaseA2AHandler of agents/dispatch_agent.py, inherited by SQLiteAgent
DispatchBaseOp(f) ==
    CASE f.op = "on_get_task"    -> ReturnsNone(f)
      [] f.op = "on_cancel_task" -> ReturnsNone(f)
      [] OTHER                   -> Unsupported(f)

\* mutant of SimpleLLMAgentOp: cancelTask is refused like the push operations
SimpleLLMAgentOp_cancel_unsupported(f) ==
    CASE f.op = "on_get_task" -> ReturnsNone(f)
      [] OTHER                -> Unsupported(f)

\* SimpleLLMAgent of agents/base_agent.py
SimpleLLMAgentOp(f) ==
    CASE f.op = "on_get_task"    -> ReturnsNone(f)
      [] f.op = "on_cancel_task" -> ReturnsNone(f)
      [] OTHER                   -> Unsupported(f)

\* the operation as the handler of frame f implements it
HandlerOp(f) ==
    CASE Class(f.handler) = "OrchestrationHandler" -> OrchestratorBaseOp(f)
      [] Class(f.handler) = "SQLiteAgent"          -> DispatchBaseOp(f)
      [] OTHER                                     -> SimpleLLMAgentOp(f)

(* ------------------------------- state --------------------------------- *)

Init ==
    /\ env \in [OPENAI_API_KEY : BOOLEAN, OLLAMA_MODEL : BOOLEAN]
    /\ targets = InitTargets
    /\ db = [h \in Leaves |-> EmptyDb]
    /\ reqs = [i \in Slots |-> IdleFrame]

\* calls take the slots in order
Free(i) ==
    /\ reqs[i].pc = "idle"
    /\ \A j \in 1..(i - 1) : reqs[j].pc # "idle"

(* ------------------------------ actions -------------------------------- *)

\* a caller sends a message to the router
OrchestratorSend(i, parts) ==
    /\ Free(i)
    /\ reqs' = [reqs EXCEPT ![i] = RouterStart(i, Message(<<i, 0>>, parts, "user"))]
    /\ UNCHANGED <<env, targets, db>>

\* a caller sends a message to a leaf agent
LeafSend(i, h, parts, st, out) ==
    /\ Free(i)
    /\ out \in FirstSegmentOutcomes(h)
    /\ LET f == LeafStart(i, h, 0, Message(<<i, 0>>, parts, "user"), st, out)
       IN  /\ reqs' = [reqs EXCEPT ![i] = f]
           /\ db' = [db EXCEPT ![h] = record(@, Uuid(f, 1), f.text, st)]
    /\ UNCHANGED <<env, targets>>

\* the router's peer call reaches the leaf agent at the resolved address
PeerDeliver(r, i, st, out) ==
    /\ reqs[r].pc = "await_peer"
    /\ ~reqs[r].delivered
    /\ Free(i)
    /\ LET call == reqs[r].peer_calls[Len(reqs[r].peer_calls)]
           h    == AgentAt(call.url)
           f    == LeafStart(i, h, r, call.message, st, out)
       IN  /\ h \in Leaves
           /\ out \in FirstSegmentOutcomes(h)
           /\ reqs' = [reqs EXCEPT ![r].delivered = TRUE, ![i] = f]
           /\ db' = [db EXCEPT ![h] = record(@, Uuid(f, 1), f.text, st)]
    /\ UNCHANGED <<env, targets>>

\* the primary provider answers or fails
OpenAIReturns(i, out) ==
    /\ reqs[i].pc = "await_openai"
    /\ reqs' = [reqs EXCEPT ![i] = OpenAIResult(@, out)]
    /\ UNCHANGED <<env, targets, db>>

\* the secondary provider answers or fails
OllamaReturns(i, out) ==
    /\ reqs[i].pc = "await_ollama"
    /\ reqs' = [reqs EXCEPT ![i] = OllamaResult(@, out)]
    /\ UNCHANGED <<env, targets, db>>

\* the response the transport hands back for a finished leaf call: the reply
\* Message, or a JSON-RPC error response when the leaf's handler raised
ResponseOf(c) ==
    IF c.pc = "returned"
    THEN [kind |-> "message", message |-> c.reply]
    ELSE [kind |-> "error", message |-> NoMessage]

\* the leaf agent's response arrives at the router
PeerResponds(r, c) ==
    /\ reqs[r].pc = "await_peer"
    /\ reqs[c].parent = r
    /\ reqs[c].pc \in {"returned", "raised"}
    /\ reqs' = [reqs EXCEPT ![r] = Unwrap(@, ResponseOf(reqs[c]))]
    /\ UNCHANGED <<env, targets, db>>

\* a peer that is not one of the leaf agents above answers
PeerRespondsForeign(r, resp) ==
    /\ reqs[r].pc = "await_peer"
    /\ ~reqs[r].delivered
    /\ reqs' = [reqs EXCEPT ![r] = Unwrap(@, resp)]
    /\ UNCHANGED <<env, targets, db>>

\* mutant of PeerError: the exception is caught and a fallback text is returned
PeerError_fallback(f) == Return(f, Uuid(f, 3), <<"service unavailable">>)

\* OrchestrationHandler.on_message_send, lines 189-197: the exception of the
\* peer call is not caught
PeerError(f) == Raise(f, "A2AClientHTTPError")

\* client.send_message raises (connection refused, timeout, HTTP error status)
PeerFails(r) ==
    /\ reqs[r].pc = "await_peer"
    /\ reqs' = [reqs EXCEPT ![r] = PeerError([@ EXCEPT !.response = TransportError])]
    /\ UNCHANGED <<env, targets, db>>

\* a caller calls one of the other operations of the handler h
Call(i, h, op) ==
    /\ Free(i)
    /\ \E p \in OpParams :
          reqs' = [reqs EXCEPT ![i] =
                      HandlerOp([IdleFrame EXCEPT !.slot = i, !.handler = h,
                                                  !.op = op, !.params = p])]
    /\ UNCHANGED <<env, targets, db>>

GetTask(i, h)       == Call(i, h, "on_get_task")
CancelTask(i, h)    == Call(i, h, "on_cancel_task")
SendStreaming(i, h) == Call(i, h, "on_message_send_stream")
SetPushNotificationConfig(i, h) ==
    Call(i, h, "on_set_task_push_notification_config")
GetPushNotificationConfig(i, h) ==
    Call(i, h, "on_get_task_push_notification_config")
Resubscribe(i, h)   == Call(i, h, "on_resubscribe_to_task")
ListPushNotificationConfig(i, h) ==
    Call(i, h, "on_list_task_push_notification_config")
DeletePushNotificationConfig(i, h) ==
    Call(i, h, "on_delete_task_push_notification_config")

(* --------------------------- specification ----------------------------- *)

Next ==
    \/ \E i \in Slots, parts \in PartLists : OrchestratorSend(i, parts)
    \/ \E i \in Slots, h \in Leaves, parts \in PartLists,
          st \in StorageOutcomes, out \in ResponsesOutcomes \cup {[kind |-> "not called", content |-> <<>>]} :
          LeafSend(i, h, parts, st, out)
    \/ \E r \in Slots, i \in Slots,
          st \in StorageOutcomes, out \in ResponsesOutcomes \cup {[kind |-> "not called", content |-> <<>>]} :
          PeerDeliver(r, i, st, out)
    \/ \E i \in Slots, out \in OpenAIOutcomes : OpenAIReturns(i, out)
    \/ \E i \in Slots, out \in OllamaOutcomes : OllamaReturns(i, out)
    \/ \E r \in Slots, c \in Slots : PeerResponds(r, c)
    \/ \E r \in Slots, resp \in ForeignResponses : PeerRespondsForeign(r, resp)
    \/ \E r \in Slots : PeerFails(r)
    \/ \E i \in Slots, h \in Handlers : GetTask(i, h)
    \/ \E i \in Slots, h \in Handlers : CancelTask(i, h)
    \/ \E i \in Slots, h \in Handlers : SendStreaming(i, h)
    \/ \E i \in Slots, h \in Handlers : SetPushNotificationConfig(i, h)
    \/ \E i \in Slots, h \in Handlers : GetPushNotificationConfig(i, h)
    \/ \E i \in Slots, h \in Handlers : Resubscribe(i, h)
    \/ \E i \in Slots, h \in Handlers : ListPushNotificationConfig(i, h)
    \/ \E i \in Slots, h \in Handlers : DeletePushNotificationConfig(i, h)

Spec == Init /\ [][Next]_vars

\* a caller sends a message to the explicit-prefix router
PrefixSend(i, parts) ==
    /\ Free(i)
    /\ reqs' = [reqs EXCEPT ![i] = PrefixStart(i, Message(<<i, 0>>, parts, "user"))]
    /\ UNCHANGED <<env, targets, db>>

\* the deployment whose router is the explicit-prefix variant
NextPrefix ==
    \/ \E i \in Slots, parts \in PrefixPartLists : PrefixSend(i, parts)
    \/ \E r \in Slots, i \in Slots,
          st \in StorageOutcomes, out \in ResponsesOutcomes \cup {[kind |-> "not called", content |-> <<>>]} :
          PeerDeliver(r, i, st, out)
    \/ \E i \in Slots, out \in OpenAIOutcomes : OpenAIReturns(i, out)
    \/ \E i \in Slots, out \in OllamaOutcomes : OllamaReturns(i, out)
    \/ \E r \in Slots, c \in Slots : PeerResponds(r, c)
    \/ \E r \in Slots, resp \in ForeignResponses : PeerRespondsForeign(r, resp)
    \/ \E r \in Slots : PeerFails(r)

SpecPrefix == Init /\ [][NextPrefix]_vars

\* the peer call of the router call r ends, with a response or an error
PeerCallEnds(r) ==
    \/ \E c \in Slots : PeerResponds(r, c)
    \/ \E resp \in ForeignResponses : PeerRespondsForeign(r, resp)
    \/ PeerFails(r)

\* every awaited call at the boundary (provider, peer) eventually returns or
\* fails: the event loop resumes the coroutine that awaits it
BoundaryCallsEnd ==
    \A i \in Slots :
        /\ WF_vars(\E out \in OpenAIOutcomes : OpenAIReturns(i, out))
        /\ WF_vars(\E out \in OllamaOutcomes : OllamaReturns(i, out))
        /\ WF_vars(PeerCallEnds(i))

FairSpec == Init /\ [][Next]_vars /\ BoundaryCallsEnd

(* ------------------------------- claims -------------------------------- *)

IsSend(f)   == f.op = "on_message_send"
IsRouter(f) == IsSend(f) /\ Class(f.handler) = "OrchestrationHandler"
IsLeaf(f)   == IsSend(f) /\ f.handler \in Leaves

ReplyText(f) == f.reply.parts[1].text

\* the frames of the leaf calls started by the peer call of the router call r
Children(r) == {c \in Slots : reqs[c].parent = r}

\* C1: in classifier routing, when the provider's answer, trimmed and lowercased,
\* is not a key of the routing table (the literal "unknown" included), the
\* router's send returns the reply "unable to route request" and the request
\* makes no peer call.
C1_ClassifierMissUnableNoPeerCall ==
    \A i \in Slots :
        LET f == reqs[i] IN
        (IsRouter(f) /\ f.answer.type = "str"
            /\ lower(strip(f.answer.val)) \notin DOMAIN targets)
        => /\ f.pc = "returned"
           /\ f.reply.role = "agent"
           /\ f.reply.parts = <<TextPart(<<"unable to route request">>)>>
           /\ f.peer_calls = <<>>
           /\ Children(i) = {}

\* C1 witness: the provider answered "unknown" and the router replied
C1_Witness ==
    \E i \in Slots :
        /\ IsRouter(reqs[i])
        /\ reqs[i].llm_results = <<"ok">>
        /\ reqs[i].answer = Str(<<"unknown">>)
        /\ reqs[i].pc = "returned"

\* the frame is past its call of LLMClient.complete
PastComplete(f) ==
    /\ IsSend(f)
    /\ Class(f.handler) \in {"OrchestrationHandler", "SQLiteAgent"}
    /\ f.pc \in {"await_peer", "returned", "raised"}
    /\ f.storage \in {"none", "ok"}

\* C2: complete never raises, whatever providers are configured and whether
\* they succeed or fail; with no provider configured, or with every configured
\* provider failing, it returns the fallback argument.
C2_CompleteNeverRaisesFallback ==
    \A i \in Slots :
        LET f == reqs[i] IN
        PastComplete(f)
        => /\ f.answer.type # "none"
           /\ f.error \in {"none", "AttributeError", "ValidationError",
                           "A2AClientHTTPError"}
           /\ (\A k \in 1..Len(f.llm_results) : f.llm_results[k] = "fail")
                  => f.answer = Str(f.default)

\* C2 witness: both providers were configured and both failed
C2_Witness ==
    \E i \in Slots :
        /\ PastComplete(reqs[i])
        /\ reqs[i].llm_results = <<"fail", "fail">>
        /\ reqs[i].answer = Str(reqs[i].default)

\* C3 as stated: every operation other than send, getTask and cancelTask
\* included, fails with UnsupportedOperation, the streaming ones before
\* yielding any element.
C3_Original_AllOthersUnsupported ==
    \A i \in Slots :
        LET f == reqs[i] IN
        f.op \in Ops
        => /\ f.pc = "raised"
           /\ f.error = "UnsupportedOperationError"
           /\ f.yielded = 0

\* C3 amended: every operation other than send, getTask and cancelTask fails
\* with UnsupportedOperation, the streaming ones before yielding any element;
\* getTask and cancelTask return absent.
C3_OthersUnsupported ==
    \A i \in Slots :
        LET f == reqs[i] IN
        /\ f.op \in Ops \ {"on_get_task", "on_cancel_task"}
           => /\ f.pc = "raised"
              /\ f.error = "UnsupportedOperationError"
              /\ f.reply = NoMessage
              /\ f.yielded = 0
        /\ f.op \in {"on_get_task", "on_cancel_task"}
           => /\ f.pc = "returned"
              /\ f.error = "none"
              /\ f.reply = NoMessage

\* C3 witness: a streaming send and a push-config listing were refused by the router
C3_Witness ==
    /\ \E i \in Slots :
          /\ reqs[i].op = "on_message_send_stream"
          /\ reqs[i].pc = "raised"
    /\ \E i \in Slots :
          /\ reqs[i].op = "on_list_task_push_notification_config"
          /\ reqs[i].handler = "orchestrator"
          /\ reqs[i].pc = "raised"

\* a step in which slot i is taken by a call of getTask or cancelTask
TaskQueryStep(i) ==
    /\ reqs[i].pc = "idle"
    /\ reqs'[i].op \in {"on_get_task", "on_cancel_task"}

\* C4: getTask and cancelTask report absent for any input and in any state, and
\* change nothing: the request logs, the routing table and every other call are
\* left as they were, and the call makes no completion or peer call.
C4_TaskQueriesAbsentNoEffect ==
    /\ [](\A i \in Slots :
            LET f == reqs[i] IN
            f.op \in {"on_get_task", "on_cancel_task"}
            => /\ f.pc = "returned"
               /\ f.reply = NoMessage
               /\ f.error = "none"
               /\ f.llm_calls = <<>>
               /\ f.peer_calls = <<>>
               /\ f.storage = "none")
    /\ [][\A i \in Slots :
            TaskQueryStep(i)
            => /\ db' = db
               /\ targets' = targets
               /\ env' = env
               /\ \A j \in Slots \ {i} : reqs'[j] = reqs[j]]_vars

\* C4 witness: getTask returned absent on the dispatch agent while a send of
\* that agent, whose row is in the log, awaits its provider
C4_Witness ==
    /\ IsLeaf(reqs[1]) /\ reqs[1].handler = "dispatch"
    /\ reqs[1].pc = "await_openai"
    /\ Len(db["dispatch"].rows) = 1
    /\ reqs[2].op = "on_get_task" /\ reqs[2].handler = "dispatch"
    /\ reqs[2].pc = "returned"

HasTextPart(parts) == \E k \in 1..Len(parts) : parts[k].kind = "text"

\* the text of the earliest text part of a part list, "" when there is none
RECURSIVE FirstTextPart(_)
FirstTextPart(parts) ==
    IF parts = <<>>
    THEN <<>>
    ELSE IF Head(parts).kind = "text"
         THEN Head(parts).text
         ELSE FirstTextPart(Tail(parts))

\* C5: for every message whose parts contain a text part, the extracted text is
\* the text of the earliest text part, whatever non-text parts precede it.
C5_EarliestTextPartExtracted ==
    \A i \in Slots :
        LET f == reqs[i] IN
        (IsSend(f) /\ HasTextPart(f.message.parts))
        => f.text = FirstTextPart(f.message.parts)

\* the prompt a handler gives its provider for the message text t
PromptFor(h, t) ==
    CASE Class(h) = "OrchestrationHandler" -> RouterPrompt(t)
      [] Class(h) = "SQLiteAgent"          -> t
      [] OTHER                             -> <<SystemPrompt(h), ": ">> \o t

\* the failures of send that have another cause than the message's text
OtherFailures ==
    {"sqlite3.Error", "AttributeError", "ValidationError", "A2AClientHTTPError"}

\* C6: for a message with no text-bearing part (no part at all, or only non-text
\* parts) the extracted text is the empty string and send does not raise for the
\* missing text: it logs, prompts and forwards as for the empty text.
C6_NoTextPartIsEmptyText ==
    \A i \in Slots :
        LET f == reqs[i] IN
        (IsSend(f) /\ ~HasTextPart(f.message.parts))
        => /\ f.text = <<>>
           /\ f.pc = "raised" => f.error \in OtherFailures
           /\ \A k \in 1..Len(f.llm_calls) :
                  f.llm_calls[k].prompt = PromptFor(f.handler, <<>>)
           /\ \A k \in 1..Len(f.peer_calls) :
                  f.peer_calls[k].message.parts = <<TextPart(<<>>)>>
           /\ (IsLeaf(f) /\ f.storage = "ok")
                  => \E k \in 1..Len(db[f.handler].rows) :
                         db[f.handler].rows[k] = [id |-> Uuid(f, 1), text |-> <<>>]

\* C6 witness: the router and a leaf agent each answered a message that holds
\* a file part only
C6_Witness ==
    /\ IsRouter(reqs[1])
    /\ reqs[1].message.parts = <<FilePart>>
    /\ reqs[1].pc = "returned"
    /\ IsLeaf(reqs[2])
    /\ reqs[2].message.parts = <<FilePart>>
    /\ reqs[2].pc = "returned"

\* C7: in the forwarding step, when the peer's response carries a Message the
\* router's reply text is the text of that Message's first text part, and for
\* every other response shape it is the literal "ok".
C7_ReplyIsFirstTextPartOrOk ==
    \A i \in Slots :
        LET f == reqs[i] IN
        (IsRouter(f) /\ f.pc = "returned" /\ f.response.kind # "none")
        => ReplyText(f) = IF f.response.kind = "message"
                          THEN FirstTextPart(f.response.message.parts)
                          ELSE <<"ok">>

StorageFailures == {"execute_fails", "commit_fails"}

\* C8: a failure of the storage layer or of a peer is surfaced to the original
\* caller as a failure of the request: when the request was routed to a leaf
\* agent whose log write failed, the router returns no reply Message.
C8_LeafStorageFailureSurfaced ==
    \A r \in Slots :
        (IsRouter(reqs[r])
            /\ \E c \in Children(r) : reqs[c].storage \in StorageFailures)
        => reqs[r].pc # "returned"

\* C9: when the leaf agent's log insert or commit fails, send raises: no reply
\* Message is returned and the completion provider is not called.
C9_LogFailureAbortsBeforeCompletion ==
    \A i \in Slots :
        LET f == reqs[i] IN
        (IsLeaf(f) /\ f.storage \in StorageFailures)
        => /\ f.pc = "raised"
           /\ f.error = "sqlite3.Error"
           /\ f.reply = NoMessage
           /\ f.llm_calls = <<>>
           /\ f.answer = NoAnswer

\* C9 witness: with a provider configured, the commit failed on the dispatch
\* agent and the insert failed on the inbound agent
C9_Witness ==
    /\ env.OPENAI_API_KEY
    /\ reqs[1].handler = "dispatch" /\ reqs[1].storage = "commit_fails"
    /\ reqs[1].pc = "raised"
    /\ reqs[2].handler = "inbound" /\ reqs[2].storage = "execute_fails"
    /\ reqs[2].pc = "raised"

\* C10: when the router's peer call fails at transport level, send raises and
\* returns no reply Message: no retry, no fallback text, no second peer call.
C10_PeerFailureRaises ==
    \A i \in Slots :
        LET f == reqs[i] IN
        (IsRouter(f) /\ f.response = TransportError)
        => /\ f.pc = "raised"
           /\ f.error = "A2AClientHTTPError"
           /\ f.reply = NoMessage
           /\ Len(f.peer_calls) = 1
           /\ Cardinality(Children(i)) <= 1

\* C10 witness: the peer call failed after the request had reached the leaf
C10_Witness ==
    \E i \in Slots :
        /\ IsRouter(reqs[i])
        /\ reqs[i].response = TransportError
        /\ reqs[i].delivered
        /\ reqs[i].pc = "raised"

\* the row the request of frame f wrote is in its agent's committed log
Logged(f) ==
    \E k \in 1..Len(db[f.handler].rows) :
        db[f.handler].rows[k] = [id |-> Uuid(f, 1), text |-> f.text]

\* the frame is a leaf send whose record step completed
Recorded(f) == IsLeaf(f) /\ f.storage = "ok"

\* the provider calls of frame f were all given prompt p
PromptedWith(f, p) ==
    \A k \in 1..Len(f.llm_calls) : f.llm_calls[k].prompt = p

\* C11 as stated: every leaf agent's send on text t records t, gives the
\* provider the raw text t as prompt and returns an agent Message whose text is
\* what the completion returned.
C11_Original_LeafPromptIsRawText ==
    \A i \in Slots :
        LET f == reqs[i] IN
        Recorded(f)
        => /\ Logged(f)
           /\ PromptedWith(f, f.text)
           /\ f.pc = "returned"
              => /\ f.reply.role = "agent"
                 /\ f.reply.parts = <<TextPart(f.answer.val)>>

\* C11: a leaf agent's send on text t records t and, when it returns, returns
\* a Message with role=agent whose text is what the completion returned. The
\* SQLite agent calls complete(t, fallback = "<prefix>: t") and the provider's
\* prompt is the raw text t; with no model configured the dispatch agent's
\* reply is exactly "vehicle stored: t". The SimpleLLMAgent gives its provider
\* the prompt "<system_prompt>: t", which is also the reply when it has no
\* client or the client fails.
C11_LeafRecordsAndRepliesCompletion ==
    \A i \in Slots :
        LET f == reqs[i]
            h == f.handler
        IN
        Recorded(f)
        => /\ Logged(f)
           /\ f.pc = "returned"
              => /\ f.reply.role = "agent"
                 /\ f.answer.type = "str"
                 /\ f.reply.parts = <<TextPart(f.answer.val)>>
           /\ Class(h) = "SQLiteAgent"
              => /\ f.prompt = f.text
                 /\ f.default = <<Prefix(h), ": ">> \o f.text
                 /\ PromptedWith(f, f.text)
                 /\ (f.pc = "returned" /\ ~env.OPENAI_API_KEY /\ ~env.OLLAMA_MODEL)
                    => ReplyText(f) = <<"vehicle stored", ": ">> \o f.text
           /\ Class(h) = "SimpleLLMAgent"
              => /\ PromptedWith(f, <<SystemPrompt(h), ": ">> \o f.text)
                 /\ f.pc = "returned"
                 /\ (f.llm_results \in {<<>>, <<"fail">>})
                    => ReplyText(f) = <<SystemPrompt(h), ": ">> \o f.text

\* C11 witness: with no model configured the dispatch agent logged the text
\* " X" and replied "vehicle stored:  X"
C11_Witness ==
    \E i \in Slots :
        /\ ~env.OPENAI_API_KEY /\ ~env.OLLAMA_MODEL
        /\ reqs[i].handler = "dispatch" /\ reqs[i].pc = "returned"
        /\ reqs[i].text = <<" ", "X">>
        /\ Logged(reqs[i])
        /\ ReplyText(reqs[i]) = <<"vehicle stored", ": ", " ", "X">>

IsPrefixRouter(f) == IsSend(f) /\ Class(f.handler) = "ExplicitPrefixRouter"

\* C12: in explicit-prefix routing, every input text that contains no colon
\* yields the literal reply "format: agent: message", and no peer call is
\* attempted for that request.
C12_NoColonFormatReplyNoPeerCall ==
    \A i \in Slots :
        LET f == reqs[i] IN
        (IsPrefixRouter(f) /\ \A k \in 1..Len(f.text) : f.text[k] # ":")
        => /\ f.pc = "returned"
           /\ f.reply.role = "agent"
           /\ f.reply.parts = <<TextPart(<<"format: agent: message">>)>>
           /\ f.peer_calls = <<>>
           /\ Children(i) = {}

\* C12 witness: the explicit-prefix router answered the text "hello"
C12_Witness ==
    \E i \in Slots :
        /\ IsPrefixRouter(reqs[i])
        /\ reqs[i].text = <<"hello">>
        /\ reqs[i].pc = "returned"

\* C13: in explicit-prefix routing an input "<key>: <content>" is split on its
\* first colon. If the trimmed, lowercased key is registered, one peer call
\* goes to the address registered under it, the forwarded content is the
\* trimmed text after the first colon, and the router returns the text of the
\* peer's reply Message; if the key is not registered the reply is
\* "unknown agent: <key>" and nothing is forwarded.
C13_SplitOnFirstColonForwardsTrimmedContent ==
    \A i \in Slots :
        LET f == reqs[i] IN
        IsPrefixRouter(f)
        => \A k \in 1..Len(f.text) :
             (f.text[k] = ":" /\ \A j \in 1..(k - 1) : f.text[j] # ":")
             => LET key     == lower(strip(SubSeq(f.text, 1, k - 1)))
                    content == strip(SubSeq(f.text, k + 1, Len(f.text)))
                IN  /\ key \in DOMAIN targets
                       => /\ Len(f.peer_calls) = 1
                          /\ f.peer_calls[1].url = targets[key].url
                          /\ f.peer_calls[1].message.parts = <<TextPart(content)>>
                          /\ \A c \in Children(i) :
                                /\ reqs[c].message = f.peer_calls[1].message
                                /\ reqs[c].handler = AgentAt(targets[key].url)
                          /\ Cardinality(Children(i)) <= 1
                          /\ (f.pc = "returned" /\ f.response.kind = "message"
                                /\ f.response.message.parts[1].kind = "text")
                             => ReplyText(f) = f.response.message.parts[1].text
                    /\ key \notin DOMAIN targets
                       => /\ f.pc = "returned"
                          /\ f.reply.parts = <<TextPart(<<"unknown agent: ">> \o key)>>
                          /\ f.peer_calls = <<>>
                          /\ Children(i) = {}

\* C13 witness: " Dispatch : a:b " reached the dispatch agent as "a:b" and the
\* router returned that agent's reply
C13_Witness ==
    \E i \in Slots, c \in Slots :
        /\ IsPrefixRouter(reqs[i])
        /\ reqs[i].text = <<" ", "Dispatch", " ", ":", " ", "a", ":", "b", " ">>
        /\ reqs[c].parent = i /\ reqs[c].handler = "dispatch"
        /\ reqs[c].text = <<"a", ":", "b">>
        /\ reqs[i].pc = "returned" /\ reqs[c].pc = "returned"
        /\ ReplyText(reqs[i]) = ReplyText(reqs[c])

\* the frame is a send that returned
ReturnedSend(f) == IsSend(f) /\ f.pc = "returned"

\* C14: every send that returns, on the router and on a leaf agent and on
\* every path, returns exactly one Message with role=agent whose id is freshly
\* generated: different from the id of the inbound message, of every message
\* any handler received and of every other reply.
C14_ReplyIsOneAgentMessageWithFreshId ==
    \A i \in Slots :
        LET f == reqs[i] IN
        ReturnedSend(f)
        => /\ f.reply.role = "agent"
           /\ Len(f.reply.parts) = 1
           /\ f.reply.parts[1].kind = "text"
           /\ f.reply.message_id # NoId
           /\ f.reply.message_id # f.message.message_id
           /\ \A j \in Slots :
                /\ IsSend(reqs[j]) => f.reply.message_id # reqs[j].message.message_id
                /\ (j # i /\ ReturnedSend(reqs[j]))
                   => f.reply.message_id # reqs[j].reply.message_id

\* C14 witness: the router returned the reply of the leaf agent it called; the
\* leaf agent's reply had been returned before
C14_Witness ==
    \E r \in Slots, c \in Slots :
        /\ IsRouter(reqs[r]) /\ reqs[r].pc = "returned"
        /\ reqs[c].parent = r /\ reqs[c].pc = "returned"
        /\ reqs[r].response.message = reqs[c].reply

\* the frame is a send of a handler that asks LLMClient.complete, and has
\* entered it
InComplete(f) ==
    /\ IsSend(f)
    /\ Class(f.handler) \in {"OrchestrationHandler", "SQLiteAgent"}
    /\ f.storage \in {"none", "ok"}

\* the tiers of the provider calls frame f has made, in order
Tiers(f) == [k \in 1..Len(f.llm_calls) |-> f.llm_calls[k].tier]

\* C15: within one call of complete the tiers are tried in order and at most
\* once each: the primary first when it is configured, the secondary only if
\* the primary is not configured or failed; when the primary succeeds the
\* result is its trimmed output and the secondary is never called.
C15_TiersInOrderAtMostOnce ==
    \A i \in Slots :
        LET f == reqs[i] IN
        InComplete(f)
        => /\ Tiers(f) \in {<<>>, <<"openai">>, <<"ollama">>, <<"openai", "ollama">>}
           /\ Len(f.llm_results) <= Len(f.llm_calls)
           /\ env.OPENAI_API_KEY => (Tiers(f) # <<>> /\ Tiers(f)[1] = "openai")
           /\ ~env.OPENAI_API_KEY => Tiers(f) \in {<<>>, <<"ollama">>}
           /\ ~env.OLLAMA_MODEL => Tiers(f) \in {<<>>, <<"openai">>}
           /\ Tiers(f) = <<"openai", "ollama">> => f.llm_results[1] = "fail"
           /\ (Tiers(f) # <<>> /\ Tiers(f)[1] = "openai"
                /\ f.llm_results # <<>> /\ f.llm_results[1] = "ok")
              => /\ Tiers(f) = <<"openai">>
                 /\ f.answer = Str(strip(f.llm_outputs[1]))

\* C15 witness: with both providers configured the primary answered
\* " INBOUND\n", the result was "INBOUND" and the secondary was not called
C15_Witness ==
    \E i \in Slots :
        /\ env.OPENAI_API_KEY /\ env.OLLAMA_MODEL
        /\ InComplete(reqs[i])
        /\ reqs[i].llm_results = <<"ok">>
        /\ reqs[i].llm_outputs = << <<" ", "INBOUND", "\n">> >>
        /\ reqs[i].answer = Str(<<"INBOUND">>)
        /\ Tiers(reqs[i]) = <<"openai">>

\* C16: in classifier routing, when the provider's answer, trimmed and
\* lowercased, is a registered key, the router makes exactly one peer call, to
\* the address registered under that key, and the text it forwards is the
\* text of the inbound message, untrimmed and unmodified.
C16_HitForwardsOriginalTextOnce ==
    \A i \in Slots :
        LET f      == reqs[i]
            choice == lower(strip(f.answer.val))
        IN
        (IsRouter(f) /\ f.answer.type = "str" /\ choice \in DOMAIN targets)
        => /\ Len(f.peer_calls) = 1
           /\ f.peer_calls[1].url = targets[choice].url
           /\ f.peer_calls[1].message.parts = <<TextPart(f.text)>>
           /\ (f.message.parts # <<>> /\ f.message.parts[1].kind = "text")
              => f.peer_calls[1].message.parts[1].text = f.message.parts[1].text
           /\ Cardinality(Children(i)) <= 1
           /\ \A c \in Children(i) :
                /\ reqs[c].handler = AgentAt(targets[choice].url)
                /\ reqs[c].message = f.peer_calls[1].message
                /\ reqs[c].text = f.text

\* C16 witness: the provider answered " INBOUND\n" to the text " X", and the
\* inbound agent received " X"
C16_Witness ==
    \E i \in Slots, c \in Slots :
        /\ IsRouter(reqs[i])
        /\ reqs[i].message.parts = <<TextPart(<<" ", "X">>)>>
        /\ reqs[i].llm_outputs = << <<" ", "INBOUND", "\n">> >>
        /\ reqs[c].parent = i /\ reqs[c].handler = "inbound"
        /\ reqs[c].text = <<" ", "X">>

\* the requests of leaf agent h whose record step (insert and commit) completed
RecordedOn(h) ==
    {i \in Slots : Recorded(reqs[i]) /\ reqs[i].handler = h}

\* the row the request in slot i writes
RowOf(i) == [id |-> Uuid(reqs[i], 1), text |-> reqs[i].text]

\* C17: the request log has one row per inbound request: after any sequence
\* or interleaving of sends the number of rows equals the number of requests
\* whose record step completed, and every row holds the text of exactly one of
\* those requests under a distinct id.
C17_OneRowPerRecordedRequest ==
    \A h \in Leaves :
        LET rows == db[h].rows IN
        /\ Len(rows) = Cardinality(RecordedOn(h))
        /\ \A k \in 1..Len(rows) :
             /\ \E i \in RecordedOn(h) : rows[k] = RowOf(i)
             /\ \A l \in 1..Len(rows) : l # k => rows[l].id # rows[k].id

\* the send of frame f has returned a reply or raised
Finished(f) == f.pc \in {"returned", "raised"}

\* a provider call of frame f has not ended yet
PendingCompletion(f) == Len(f.llm_results) < Len(f.llm_calls)

\* the peer call of frame f has neither been answered nor failed
PendingPeerCall(f) == f.peer_calls # <<>> /\ f.response = NoResponse

\* nothing frame f started is still in flight
NothingPending(f) ==
    /\ ~PendingCompletion(f)
    /\ ~PendingPeerCall(f)
    /\ Recorded(f) => Logged(f)

\* C18: a handler never leaves work behind and always finishes: when a send
\* returns or raises, every provider call and peer call it started has ended
\* and the row it recorded is committed; and, if every awaited boundary call
\* eventually returns or fails, every started send eventually returns a reply
\* or raises.
C18_NothingPendingAndAlwaysFinishes ==
    /\ [](\A i \in Slots :
            (IsSend(reqs[i]) /\ Finished(reqs[i])) => NothingPending(reqs[i]))
    /\ \A i \in Slots :
          (IsSend(reqs[i]) /\ ~Finished(reqs[i])) ~> Finished(reqs[i])

\* C18 witness: a router send that called the provider and a peer has
\* returned, and so has the leaf send it started, whose row is committed
C18_Witness ==
    \E r \in Slots, c \in Slots :
        /\ IsRouter(reqs[r]) /\ reqs[r].pc = "returned"
        /\ Len(reqs[r].llm_calls) = 2
        /\ reqs[c].parent = r /\ reqs[c].handler = "dispatch"
        /\ reqs[c].llm_calls # <<>>
        /\ reqs[c].pc = "returned"
        /\ Logged(reqs[c])

\* complete has returned to frame f without a provider's answer: no provider
\* was configured, or every provider it called failed
NoWorkingProvider(f) ==
    /\ f.answer.type # "none"
    /\ Len(f.llm_results) = Len(f.llm_calls)
    /\ \A k \in 1..Len(f.llm_results) : f.llm_results[k] = "fail"

\* C19: when no completion provider is configured, or every configured
\* provider fails, the classifier router answers the inbound message, whatever
\* its text, with "unable to route request" and makes no peer call.
C19_NoProviderNeverRoutes ==
    \A i \in Slots :
        LET f == reqs[i] IN
        (IsRouter(f) /\ NoWorkingProvider(f))
        => /\ f.pc = "returned"
           /\ ReplyText(f) = <<"unable to route request">>
           /\ f.peer_calls = <<>>
           /\ Children(i) = {}
           /\ f.response = NoResponse

\* C19 witness: both providers failed and the router answered the text " X"
C19_Witness ==
    \E i \in Slots :
        /\ IsRouter(reqs[i])
        /\ reqs[i].text = <<" ", "X">>
        /\ reqs[i].llm_results = <<"fail", "fail">>
        /\ reqs[i].pc = "returned"
        /\ ReplyText(reqs[i]) = <<"unable to route request">>

\* a send on leaf agent h is suspended, awaiting the completion provider
SuspendedOn(h) ==
    \E i \in Slots :
        /\ IsLeaf(reqs[i]) /\ reqs[i].handler = h
        /\ reqs[i].pc \in {"await_openai", "await_ollama"}

\* C20: with concurrent sends on one leaf agent sharing one connection, at
\* every point where a handler is suspended the connection holds no
\* uncommitted row, and every committed row was published by the commit of the
\* request that inserted it, a request whose record step completed.
C20_NoUncommittedRowAcrossSuspension ==
    \A h \in Leaves :
        /\ SuspendedOn(h) => db[h].pending = <<>>
        /\ \A k \in 1..Len(db[h].rows) :
             \E i \in RecordedOn(h) : db[h].rows[k] = RowOf(i)

\* the send of frame f was forwarded by a router, not sent by a caller
Forwarded(f) == IsSend(f) /\ f.parent # 0

\* C21: a request is forwarded at most one hop: the routing table is the one
\* built at construction and no step changes it, none of its addresses is the
\* router's own, a router send makes at most one peer call, and a leaf agent's
\* send makes none, so a forwarded send was forwarded by a caller's router send
\* and forwards nothing itself.
C21_RoutingTableFixedOneHop ==
    /\ [](/\ targets = InitTargets
          /\ \A key \in DOMAIN targets :
                /\ targets[key].url # "http://localhost:8000"
                /\ AgentAt(targets[key].url) # "orchestrator"
          /\ \A i \in Slots :
                LET f == reqs[i] IN
                /\ IsRouter(f) => Len(f.peer_calls) <= 1
                /\ IsLeaf(f)
                   => /\ f.peer_calls = <<>>
                      /\ f.pc # "await_peer"
                      /\ Children(i) = {}
                /\ Forwarded(f)
                   => /\ IsLeaf(f)
                      /\ IsRouter(reqs[f.parent])
                      /\ ~Forwarded(reqs[f.parent]))
    /\ [][targets' = targets]_vars

\* C21 witness: a router send was forwarded to the dispatch agent, whose send
\* went through its provider call and returned without a peer call, and the
\* router returned
C21_Witness ==
    \E r \in Slots, c \in Slots :
        /\ IsRouter(reqs[r]) /\ reqs[r].pc = "returned"
        /\ reqs[c].parent = r /\ reqs[c].handler = "dispatch"
        /\ reqs[c].llm_results # <<>>
        /\ reqs[c].pc = "returned"
        /\ reqs[c].peer_calls = <<>>
        /\ targets = InitTargets

\* what the caller of an operation observes of frame f: returned or raised,
\* the result, the failure, the elements a stream yielded
Outcome(f) == <<f.pc, f.reply, f.error, f.yielded>>

\* the frame of the call of operation op with params p on handler h
OpFrame(i, h, op, p) ==
    [IdleFrame EXCEPT !.slot = i, !.handler = h, !.op = op, !.params = p]

\* C22: the base handlers, the leaf agents and the router expose the same
\* capability set: every call of an operation other than send, whatever its
\* input and whatever the other calls are doing, has the outcome every other
\* handler class gives for that operation and input, which is either the
\* absent result or the UnsupportedOperation failure.
C22_SameCapabilitySet ==
    \A i \in Slots :
        LET f == reqs[i] IN
        f.op \in Ops
        => /\ \A h \in Handlers :
                Outcome(HandlerOp(OpFrame(i, h, f.op, f.params))) = Outcome(f)
           /\ \A j \in Slots :
                reqs[j].op = f.op => Outcome(reqs[j]) = Outcome(f)
           /\ \/ Outcome(f) = <<"returned", NoMessage, "none", 0>>
              \/ Outcome(f) = <<"raised", NoMessage, "UnsupportedOperationError", 0>>

\* C22 witness: cancelTask was called on the router and, with another task
\* id, on the inbound agent
C22_Witness ==
    /\ reqs[1].op = "on_cancel_task" /\ reqs[1].handler = "orchestrator"
    /\ reqs[2].op = "on_cancel_task" /\ reqs[2].handler = "inbound"
    /\ reqs[1].params # reqs[2].params
    /\ reqs[1].pc = "returned" /\ reqs[2].pc = "returned"

====
